---- MODULE Spec2Model ----
(***************************************************************************)
(* Model of banco.py: the purchase policy (Comportamento.decide_compra),   *)
(* one turn of a player (Jogador.executa_jogada), the board               *)
(* (Tabuleiro.remove_jogador) and the game loop (Jogo.play, Jogo.reset),   *)
(* started from setup_jogo.                                                *)
(*                                                                         *)
(* Players are referred to by their index in Jogo.jogadores; an owner      *)
(* (Propriedade.dono) is such an index, or Nenhum for None.  A Python list *)
(* index k is the sequence index k + 1.                                    *)
(***************************************************************************)
EXTENDS Integers, Sequences, FiniteSets, TLC

VARIABLES
    jogadores,          \* Jogo.jogadores: sequence of player records, <<>> after reset
    tabuleiro,          \* Jogo.tabuleiro.propriedades: sequence of property records, <<>> after reset
    rodada,             \* Jogo.rodada
    jogadores_falidos,  \* Jogo.jogadores_falidos
    pc,                 \* position inside Jogo.play
    idx,                \* position of the inner for loop of Jogo.play in jogadores
    jogada,             \* locals of the last executa_jogada call
    dc,                 \* arguments and return value of the last decide_compra call
    time_out,           \* local time_out of Jogo.play
    vencedor,           \* local vencedor of Jogo.play (index in jogadores)
    resultado,          \* the record Jogo.play returns
    passada,            \* the current pass of the for loop of Jogo.play: the players not
                        \* bankrupt when it started, and the executa_jogada calls of each
    i_main,                  \* __main__: the loop variable i
    resultado_final_counter, \* __main__: resultado_final_counter
    resultado_final,         \* __main__: resultado_final
    mais_vence               \* __main__: comportamento_vencedor (line 252), "" before it

\* The variables of __main__ outside the game in progress
main_vars == <<i_main, resultado_final_counter, resultado_final, mais_vence>>

vars == <<jogadores, tabuleiro, rodada, jogadores_falidos, pc, idx, jogada, dc,
          time_out, vencedor, resultado, passada, main_vars>>

----------------------------------------------------------------------------
(* Program constants *)

Nenhum == 0                 \* None: Propriedade.dono default, vencedor = None
SaldoInicial == 300         \* setup_jogo: Jogador(..., 300, ...)
TamanhoTabuleiro == 20      \* the literal 20 of executa_jogada
Bonus == 100                \* self.saldo += 100
DadoMin == 1                \* randint(1,6)
DadoMax == 6
AluguelMinimoExigente == 50 \* valor_aluguel >= 50
ReservaCauteloso == 80      \* (saldo - custo_propriedade) >= 80
LimiteFalidos == 3          \* self.jogadores_falidos < 3
NumJogadores == 4           \* the four Jogador of setup_jogo

(* Bounds of the model *)

\* The round cap of Jogo.play (the literal 1000 of lines 141 and 156), scaled
\* down: the loop guard and the time_out test read MaxRodadas in its place.
MaxRodadas == 5
\* decide_compra is applied to rents and reserves up to Margem around its thresholds
Margem == 1
\* The number of games of __main__ (turnos = 300 at line 224), scaled down
turnos == 3

----------------------------------------------------------------------------
(* Comportamento *)

Traits(i, e, c, a) == [impulsivo |-> i, exigente |-> e, cauteloso |-> c, aleatorio |-> a]

\* getrandbits(1): one random bit
Bits == {0, 1}

\* Mutant of decide_compra: the demanding rule is tested before the impulsive one
\* and decides alone
decide_compra_ExigentePrimeiro(self, custo_propriedade, valor_aluguel, saldo, bit) ==
    IF self.exigente THEN valor_aluguel >= AluguelMinimoExigente
    ELSE IF self.impulsivo THEN TRUE
    ELSE IF self.cauteloso THEN (saldo - custo_propriedade) >= ReservaCauteloso
    ELSE IF self.aleatorio THEN bit = 1
    ELSE FALSE

\* Mutant of decide_compra: the cautious rule tests the balance before the
\* purchase instead of the balance left by it
decide_compra_ReservaSemCusto(self, custo_propriedade, valor_aluguel, saldo, bit) ==
    IF self.impulsivo THEN TRUE
    ELSE IF self.exigente /\ valor_aluguel >= AluguelMinimoExigente THEN TRUE
    ELSE IF self.cauteloso /\ saldo >= ReservaCauteloso THEN TRUE
    ELSE IF self.aleatorio THEN bit = 1
    ELSE FALSE

\* Mutant of decide_compra: the first set trait decides alone
decide_compra_PrimeiroTraco(self, custo_propriedade, valor_aluguel, saldo, bit) ==
    IF self.impulsivo THEN TRUE
    ELSE IF self.exigente THEN valor_aluguel >= AluguelMinimoExigente
    ELSE IF self.cauteloso THEN (saldo - custo_propriedade) >= ReservaCauteloso
    ELSE IF self.aleatorio THEN bit = 1
    ELSE FALSE

\* Comportamento.decide_compra; bit is the value getrandbits(1) yields when it
\* is called.  The returned 0/1 of the last rule is read by truth value.
decide_compra(self, custo_propriedade, valor_aluguel, saldo, bit) ==
    IF self.impulsivo THEN TRUE
    ELSE IF self.exigente /\ valor_aluguel >= AluguelMinimoExigente THEN TRUE
    ELSE IF self.cauteloso /\ (saldo - custo_propriedade) >= ReservaCauteloso THEN TRUE
    ELSE IF self.aleatorio THEN bit = 1
    ELSE FALSE

\* decide_compra reaches its call of getrandbits (line 54)
LeBit(self, custo_propriedade, valor_aluguel, saldo) ==
    /\ ~self.impulsivo
    /\ ~(self.exigente /\ valor_aluguel >= AluguelMinimoExigente)
    /\ ~(self.cauteloso /\ (saldo - custo_propriedade) >= ReservaCauteloso)
    /\ self.aleatorio

\* Jogador.retorna_comportamento; "None" when no trait is set
retorna_comportamento(j) ==
    IF j.comportamento.impulsivo THEN "impulsivo"
    ELSE IF j.comportamento.exigente THEN "exigente"
    ELSE IF j.comportamento.cauteloso THEN "cauteloso"
    ELSE IF j.comportamento.aleatorio THEN "aleatorio"
    ELSE "None"

----------------------------------------------------------------------------
(* Dados.propriedades.lista: the property dataset read by setup_jogo *)

lista ==
    [p \in 1..TamanhoTabuleiro |->
        [nome |-> p,
         custo_venda |-> IF p % 4 = 0 THEN 150 ELSE 200,
         valor_aluguel |-> IF p % 4 = 0 THEN 30 ELSE 200]]

\* No decide_compra call has been made (yet) in this turn
SemDecisao == [chamada |-> FALSE, comportamento |-> Traits(FALSE, FALSE, FALSE, FALSE),
               custo_propriedade |-> 0, valor_aluguel |-> 0, saldo |-> 0, bit |-> 0,
               ret |-> FALSE]  \* bit: the random bit drawn, 0 when none was

\* dono: propriedade.dono as read at line 85; dono_apos: propriedade.dono when
\* executa_jogada returns
SemJogada == [jogador |-> Nenhum, de |-> 0, qtd_posicoes_andar |-> 0, indice |-> 0,
              dono |-> Nenhum, dono_apos |-> Nenhum, erro |-> FALSE]

----------------------------------------------------------------------------
(* Jogador *)

\* Jogador.joga_dado: randint(1,6)
joga_dado == DadoMin..DadoMax

\* The die values the model explores
Faces == {f \in joga_dado : f \in {5, 6}}

\* tabuleiro.propriedades[k] for a Python index k: defined for
\* -len <= k < len (a negative index counts from the end), IndexError otherwise
IndiceValido(props, k) == -Len(props) <= k /\ k < Len(props)
Posicao(props, k) == IF k >= 0 THEN k + 1 ELSE Len(props) + k + 1

\* Mutant of Anda: the wrap test is >= instead of >
Anda_Igual(j, qtd_posicoes_andar) ==
    IF j.posicao_tabuleiro + qtd_posicoes_andar >= TamanhoTabuleiro
    THEN [j EXCEPT !.posicao_tabuleiro = j.posicao_tabuleiro + qtd_posicoes_andar - TamanhoTabuleiro,
                   !.saldo = j.saldo + Bonus]
    ELSE [j EXCEPT !.posicao_tabuleiro = j.posicao_tabuleiro + qtd_posicoes_andar]

\* The position and balance after the move of executa_jogada (lines 77-81)
Anda(j, qtd_posicoes_andar) ==
    IF j.posicao_tabuleiro + qtd_posicoes_andar > TamanhoTabuleiro
    THEN [j EXCEPT !.posicao_tabuleiro = j.posicao_tabuleiro + qtd_posicoes_andar - TamanhoTabuleiro,
                   !.saldo = j.saldo + Bonus]
    ELSE [j EXCEPT !.posicao_tabuleiro = j.posicao_tabuleiro + qtd_posicoes_andar]

\* Mutant of MarcaFalido: a balance of 0 is bankrupt too
MarcaFalido_Zero(j) == IF j.saldo <= 0 THEN [j EXCEPT !.falido = TRUE] ELSE j

\* if self.saldo < 0: self.falido = True (lines 94-95)
MarcaFalido(j) == IF j.saldo < 0 THEN [j EXCEPT !.falido = TRUE] ELSE j

\* Mutant of Compra: the rent is debited instead of the price
Compra_Aluguel(j, propriedade) == [j EXCEPT !.saldo = j.saldo - propriedade.valor_aluguel]

\* self.saldo -= propriedade.custo_venda (line 90)
Compra(j, propriedade) == [j EXCEPT !.saldo = j.saldo - propriedade.custo_venda]

\* Mutant of PagaAluguel: no rent is due on a property of the player itself
PagaAluguel_SoAOutros(j, i, propriedade) ==
    IF propriedade.dono = i THEN j
    ELSE [j EXCEPT !.saldo = j.saldo - propriedade.valor_aluguel]

\* self.saldo -= propriedade.valor_aluguel (line 92), for player i
PagaAluguel(j, i, propriedade) == [j EXCEPT !.saldo = j.saldo - propriedade.valor_aluguel]

\* Jogador.executa_jogada of player i with die value qtd_posicoes_andar and
\* random bit `bit`: the players, the properties and the locals afterwards.
\* An IndexError at line 83 leaves the move done and nothing else (erro = TRUE).
\* Mutant of CobraAluguel: the rent is credited to the owner
CobraAluguel_Credita(jogs, i, movido, propriedade) ==
    LET pago == [jogs EXCEPT ![i] = MarcaFalido(PagaAluguel(movido, i, propriedade))]
    IN  [pago EXCEPT ![propriedade.dono].saldo = @ + propriedade.valor_aluguel]

\* The players after the else branch and the bankruptcy test (lines 91-95):
\* only self is assigned
CobraAluguel(jogs, i, movido, propriedade) ==
    [jogs EXCEPT ![i] = MarcaFalido(PagaAluguel(movido, i, propriedade))]

executa_jogada(jogs, props, i, qtd_posicoes_andar, bit) ==
    LET movido == Anda(jogs[i], qtd_posicoes_andar)
        indice == movido.posicao_tabuleiro - 1
        local  == [jogador |-> i, de |-> jogs[i].posicao_tabuleiro,
                   qtd_posicoes_andar |-> qtd_posicoes_andar, indice |-> indice,
                   dono |-> Nenhum, dono_apos |-> Nenhum, erro |-> FALSE]
    IN  IF ~IndiceValido(props, indice)
        THEN [jogadores |-> [jogs EXCEPT ![i] = movido], propriedades |-> props,
              jogada |-> [local EXCEPT !.erro = TRUE], dc |-> SemDecisao]
        ELSE
        LET p == Posicao(props, indice)
            propriedade == props[p]
        IN  IF propriedade.dono = Nenhum
            THEN LET compra == decide_compra(movido.comportamento, propriedade.custo_venda,
                                             propriedade.valor_aluguel, movido.saldo, bit)
                     chamada == [chamada |-> TRUE, comportamento |-> movido.comportamento,
                                 custo_propriedade |-> propriedade.custo_venda,
                                 valor_aluguel |-> propriedade.valor_aluguel,
                                 saldo |-> movido.saldo,
                                 bit |-> IF LeBit(movido.comportamento, propriedade.custo_venda,
                                                  propriedade.valor_aluguel, movido.saldo)
                                         THEN bit ELSE 0,
                                 ret |-> compra]
                 IN  IF compra
                     THEN [jogadores |-> [jogs EXCEPT ![i] = MarcaFalido(Compra(movido, propriedade))],
                           propriedades |-> [props EXCEPT ![p].dono = i],
                           jogada |-> local, dc |-> chamada]
                     ELSE [jogadores |-> [jogs EXCEPT ![i] = MarcaFalido(movido)],
                           propriedades |-> props,
                           jogada |-> local, dc |-> chamada]
            ELSE [jogadores |-> CobraAluguel(jogs, i, movido, propriedade),
                  propriedades |-> props,
                  jogada |-> [local EXCEPT !.dono = propriedade.dono], dc |-> SemDecisao]

----------------------------------------------------------------------------
(* Tabuleiro *)

\* Mutant of DonoIgual: every owner compares equal to the player
DonoIgual_Qualquer(jogs, dono, i) == dono # Nenhum

\* propriedade.dono == jogador: the dataclass __eq__ of Jogador compares the
\* fields of the two objects; None is equal to no Jogador
DonoIgual(jogs, dono, i) == dono # Nenhum /\ jogs[dono] = jogs[i]

\* Mutant of remove_jogador: no property is cleared
remove_jogador_Nada(props, jogs, i) == props

\* Tabuleiro.remove_jogador
remove_jogador(props, jogs, i) ==
    [p \in 1..Len(props) |->
        IF DonoIgual(jogs, props[p].dono, i) THEN [props[p] EXCEPT !.dono = Nenhum]
        ELSE props[p]]

----------------------------------------------------------------------------
(* setup_jogo *)

Jogador(nome, saldo, comportamento) ==
    [nome |-> nome, saldo |-> saldo, comportamento |-> comportamento,
     posicao_tabuleiro |-> 0, falido |-> FALSE]

\* lista_jogadores before the shuffle
lista_jogadores ==
    << Jogador("Jogador1", SaldoInicial, Traits(TRUE, FALSE, FALSE, FALSE)),
       Jogador("Jogador2", SaldoInicial, Traits(FALSE, TRUE, FALSE, FALSE)),
       Jogador("Jogador3", SaldoInicial, Traits(FALSE, FALSE, TRUE, FALSE)),
       Jogador("Jogador4", SaldoInicial, Traits(FALSE, FALSE, FALSE, TRUE)) >>

\* shuffle(lista_jogadores) yields any order of the list; the model explores
\* the cyclic ones, in which every player comes first once and last once
Ordens == {[k \in 1..NumJogadores |-> ((k + s - 1) % NumJogadores) + 1] : s \in 0..(NumJogadores - 1)}

lista_propriedades ==
    [p \in 1..Len(lista) |->
        [nome |-> lista[p].nome, custo_venda |-> lista[p].custo_venda,
         valor_aluguel |-> lista[p].valor_aluguel, dono |-> Nenhum]]

SemResultado == [k \in {} |-> 0]

\* The four labels, in the order of the dict literals of __main__ (lines 229-232, 246-249)
Rotulos == <<"impulsivo", "exigente", "cauteloso", "aleatorio">>

\* resultado_final as first assigned (lines 226-233)
ResultadoFinalZero ==
    [k \in {"timeout", "turnos"} \cup {Rotulos[n] : n \in 1..Len(Rotulos)} |-> 0]

\* __main__ before its first game: Counter(resultado_final) keeps the zero counts
InitMain ==
    /\ i_main = 0
    /\ resultado_final_counter = ResultadoFinalZero
    /\ resultado_final = ResultadoFinalZero
    /\ mais_vence = ""

\* No pass of the for loop is in progress
SemPassada == [ativos |-> {}, jogadas |-> [k \in 1..NumJogadores |-> 0]]

\* The Jogo that setup_jogo returns when the shuffle yields order o, at the
\* entry of play
InitOrdem(o) ==
    /\ jogadores = [k \in 1..NumJogadores |-> lista_jogadores[o[k]]]
    /\ tabuleiro = lista_propriedades
    /\ rodada = 0
    /\ jogadores_falidos = 0
    /\ pc = "while"
    /\ idx = 0
    /\ jogada = SemJogada
    /\ dc = SemDecisao
    /\ time_out = 0
    /\ vencedor = Nenhum
    /\ resultado = SemResultado
    /\ passada = SemPassada

\* The first game of __main__ at the entry of play
Init == InitMain /\ \E o \in Ordens : InitOrdem(o)

----------------------------------------------------------------------------
(* Jogo.play *)

\* Mutant of CondicaoLaco: the round test is <= instead of <
CondicaoLaco_Mais == rodada <= MaxRodadas /\ jogadores_falidos < LimiteFalidos

\* while self.rodada < 1000 and self.jogadores_falidos < 3 (line 141)
CondicaoLaco == rodada < MaxRodadas /\ jogadores_falidos < LimiteFalidos

\* The loop test holds: the for loop of a new round starts (lines 141-142)
EntraRodada ==
    /\ pc = "while"
    /\ CondicaoLaco
    /\ pc' = "for"
    /\ idx' = 1
    /\ passada' = [SemPassada EXCEPT !.ativos = {k \in DOMAIN jogadores : ~jogadores[k].falido}]
    /\ UNCHANGED <<jogadores, tabuleiro, rodada, jogadores_falidos, jogada, dc,
                   time_out, vencedor, resultado, main_vars>>

\* Mutant of Avanca: the player after idx is passed over
Avanca_Salta ==
    IF idx + 1 < Len(jogadores) THEN pc' = "for" /\ idx' = idx + 2
    ELSE pc' = "fim_rodada" /\ idx' = idx

\* The next position of the for loop after player idx, or its end (line 154 next)
Avanca ==
    IF idx < Len(jogadores) THEN pc' = "for" /\ idx' = idx + 1
    ELSE pc' = "fim_rodada" /\ idx' = idx

\* Mutant of Falido: bankrupt players are not skipped
Falido_Nunca(j) == FALSE

\* if jogador.falido (line 143)
Falido(j) == j.falido

\* if jogador.falido: continue (lines 143-144)
Pula ==
    /\ pc = "for"
    /\ Falido(jogadores[idx])
    /\ Avanca
    /\ UNCHANGED <<jogadores, tabuleiro, rodada, jogadores_falidos, jogada, dc,
                   time_out, vencedor, resultado, passada, main_vars>>

\* Mutant of Quebra: the break test is > 3 instead of > 2
Quebra_Tarde(falidos) == falidos > 3

\* if self.jogadores_falidos > 2: break (lines 151-152)
Quebra(falidos) == falidos > 2

\* Mutant of Incrementa: every turn is counted as a bankruptcy
Incrementa_Sempre(falidos, faliu) == falidos + 1

\* if jogador.falido: ... self.jogadores_falidos += 1 (lines 147-149)
Incrementa(falidos, faliu) == IF faliu THEN falidos + 1 ELSE falidos

\* One iteration of the for loop for a player that is not bankrupt (lines
\* 146-152), the die value drawn from F
JogaCom(F) ==
    /\ pc = "for"
    /\ ~Falido(jogadores[idx])
    /\ passada' = [passada EXCEPT !.jogadas[idx] = @ + 1]
    /\ \E qtd \in F, bit \in Bits :
          LET r == executa_jogada(jogadores, tabuleiro, idx, qtd, bit)
              faliu == r.jogadores[idx].falido
              falidos == Incrementa(jogadores_falidos, faliu)
          IN  /\ jogadores' = r.jogadores
              /\ jogada' = IF r.jogada.erro THEN r.jogada
                            ELSE [r.jogada EXCEPT !.dono_apos =
                                     r.propriedades[Posicao(r.propriedades, r.jogada.indice)].dono]
              /\ dc' = r.dc
              /\ IF r.jogada.erro
                 THEN /\ pc' = "IndexError"
                      /\ UNCHANGED <<tabuleiro, jogadores_falidos, idx>>
                 ELSE /\ tabuleiro' = IF faliu
                                      THEN remove_jogador(r.propriedades, r.jogadores, idx)
                                      ELSE r.propriedades
                      /\ jogadores_falidos' = falidos
                      /\ IF Quebra(falidos)
                         THEN pc' = "fim_rodada" /\ idx' = idx
                         ELSE Avanca
    /\ UNCHANGED <<rodada, time_out, vencedor, resultado, main_vars>>

Joga == JogaCom(Faces)

\* self.rodada += 1 (line 154)
FimRodada ==
    /\ pc = "fim_rodada"
    /\ rodada' = rodada + 1
    /\ pc' = "while"
    /\ passada' = SemPassada
    /\ UNCHANGED <<jogadores, tabuleiro, jogadores_falidos, idx, jogada, dc,
                   time_out, vencedor, resultado, main_vars>>

\* Mutant of TimeOut: the bankrupt count is not read
TimeOut_SoRodada(r, falidos) == IF r = MaxRodadas THEN 1 ELSE 0

\* time_out = 1 if self.rodada == 1000 and self.jogadores_falidos < 3 else 0 (line 156)
TimeOut(r, falidos) == IF r = MaxRodadas /\ falidos < LimiteFalidos THEN 1 ELSE 0

\* Mutant of EscolheVencedor: the comparison is < instead of >
RECURSIVE EscolheVencedor_Menor(_, _, _)
EscolheVencedor_Menor(jogs, k, v) ==
    IF k > Len(jogs) THEN v
    ELSE IF v = Nenhum THEN EscolheVencedor_Menor(jogs, k + 1, k)
    ELSE IF jogs[k].saldo < jogs[v].saldo THEN EscolheVencedor_Menor(jogs, k + 1, k)
    ELSE EscolheVencedor_Menor(jogs, k + 1, v)

\* Mutant of EscolheVencedor: the comparison is >= instead of >
RECURSIVE EscolheVencedor_Igual(_, _, _)
EscolheVencedor_Igual(jogs, k, v) ==
    IF k > Len(jogs) THEN v
    ELSE IF v = Nenhum THEN EscolheVencedor_Igual(jogs, k + 1, k)
    ELSE IF jogs[k].saldo >= jogs[v].saldo THEN EscolheVencedor_Igual(jogs, k + 1, k)
    ELSE EscolheVencedor_Igual(jogs, k + 1, v)

\* The winner loop (lines 158-163) from position k on with running winner v
RECURSIVE EscolheVencedor(_, _, _)
EscolheVencedor(jogs, k, v) ==
    IF k > Len(jogs) THEN v
    ELSE IF v = Nenhum THEN EscolheVencedor(jogs, k + 1, k)
    ELSE IF jogs[k].saldo > jogs[v].saldo THEN EscolheVencedor(jogs, k + 1, k)
    ELSE EscolheVencedor(jogs, k + 1, v)

\* resultado = {"timeout": time_out, "turnos": self.rodada, comportamento_vencedor: 1}
Resultado(t, r, comportamento_vencedor) ==
    [k \in {"timeout", "turnos", comportamento_vencedor} |->
        IF k = comportamento_vencedor THEN 1
        ELSE IF k = "turnos" THEN r ELSE t]

\* The loop test fails: time_out, vencedor and resultado are computed (lines 156-167)
Resolve ==
    /\ pc = "while"
    /\ ~CondicaoLaco
    /\ time_out' = TimeOut(rodada, jogadores_falidos)
    /\ vencedor' = EscolheVencedor(jogadores, 1, Nenhum)
    /\ resultado' = Resultado(TimeOut(rodada, jogadores_falidos), rodada,
                              retorna_comportamento(jogadores[EscolheVencedor(jogadores, 1, Nenhum)]))
    /\ pc' = "resolvido"
    /\ UNCHANGED <<jogadores, tabuleiro, rodada, jogadores_falidos, idx, jogada, dc,
                   passada, main_vars>>

\* self.reset() and return (lines 168-170, 173-178)
Reset ==
    /\ pc = "resolvido"
    /\ jogadores' = <<>>
    /\ tabuleiro' = <<>>
    /\ rodada' = 0
    /\ jogadores_falidos' = 0
    /\ pc' = "retornou"
    /\ UNCHANGED <<idx, jogada, dc, time_out, vencedor, resultado, passada, main_vars>>

Next == EntraRodada \/ Pula \/ Joga \/ FimRodada \/ Resolve \/ Reset

Spec == Init /\ [][Next]_vars

----------------------------------------------------------------------------
(* decide_compra on its own: every combination of the four traits, applied  *)
(* to prices, rents and balances around the thresholds of the rules         *)

Comportamentos == {Traits(i, e, c, a) : i \in BOOLEAN, e \in BOOLEAN, c \in BOOLEAN, a \in BOOLEAN}
Custos == {lista[p].custo_venda : p \in 1..Len(lista)}
Alugueis == {0} \cup ((AluguelMinimoExigente - Margem)..(AluguelMinimoExigente + Margem))
Saldos == {0} \cup {c + ReservaCauteloso + d : c \in Custos, d \in (-Margem)..Margem}

InitDecide ==
    /\ \E comportamento \in Comportamentos, custo \in Custos, aluguel \in Alugueis, saldo \in Saldos :
          dc = [SemDecisao EXCEPT !.comportamento = comportamento, !.custo_propriedade = custo,
                                  !.valor_aluguel = aluguel, !.saldo = saldo]
    /\ pc = "decide_compra"
    /\ InitMain
    /\ jogadores = <<>>
    /\ tabuleiro = <<>>
    /\ rodada = 0
    /\ jogadores_falidos = 0
    /\ idx = 0
    /\ jogada = SemJogada
    /\ time_out = 0
    /\ vencedor = Nenhum
    /\ resultado = SemResultado
    /\ passada = SemPassada

\* One call of decide_compra on the drawn arguments
DecideCompra ==
    /\ pc = "decide_compra"
    /\ \E bit \in Bits :
          dc' = [dc EXCEPT !.chamada = TRUE,
                           !.bit = IF LeBit(dc.comportamento, dc.custo_propriedade,
                                            dc.valor_aluguel, dc.saldo)
                                   THEN bit ELSE 0,
                           !.ret = decide_compra(dc.comportamento, dc.custo_propriedade,
                                                 dc.valor_aluguel, dc.saldo, bit)]
    /\ pc' = "retornou"
    /\ UNCHANGED <<jogadores, tabuleiro, rodada, jogadores_falidos, idx, jogada,
                   time_out, vencedor, resultado, passada, main_vars>>

NextDecide == DecideCompra

SpecDecide == InitDecide /\ [][NextDecide]_vars

\* Jogo.play runs to its return without pause (a single synchronous thread),
\* here on the list left in the order of its construction
SemShuffle == [k \in 1..NumJogadores |-> k]
InitSemShuffle == InitMain /\ InitOrdem(SemShuffle)

FairSpec == InitSemShuffle /\ [][Next]_vars /\ WF_vars(Next)

----------------------------------------------------------------------------
(* __main__: the games of the experiment and its report *)

\* counter[k] of a Counter: 0 for a missing key
Conta(c, k) == IF k \in DOMAIN c THEN c[k] ELSE 0

\* Mutant of CounterIadd: the result replaces the totals instead of adding to them
CounterIadd_Atribui(c, o) == o

\* c += o of two Counters: the counts are added and only the positive ones kept
CounterIadd(c, o) ==
    [k \in {x \in DOMAIN c \cup DOMAIN o : Conta(c, x) + Conta(o, x) > 0} |->
        Conta(c, k) + Conta(o, k)]

\* resultado_final_counter += resultado (line 241), after play returned
Acumula ==
    /\ pc = "retornou"
    /\ resultado_final_counter' = CounterIadd(resultado_final_counter, resultado)
    /\ pc' = "main_for"
    /\ UNCHANGED <<jogadores, tabuleiro, rodada, jogadores_falidos, idx, jogada, dc,
                   time_out, vencedor, resultado, passada, i_main, resultado_final,
                   mais_vence>>

\* The die values the games of the experiment explore
FacesExperimento == {f \in joga_dado : f = DadoMax}

\* The next i of range(turnos): setup_jogo and the entry of play (lines 237-240)
NovoJogo ==
    /\ pc = "main_for"
    /\ i_main + 1 < turnos
    /\ i_main' = i_main + 1
    /\ \E o \in Ordens : jogadores' = [k \in 1..NumJogadores |-> lista_jogadores[o[k]]]
    /\ tabuleiro' = lista_propriedades
    /\ rodada' = 0
    /\ jogadores_falidos' = 0
    /\ pc' = "while"
    /\ idx' = 0
    /\ jogada' = SemJogada
    /\ dc' = SemDecisao
    /\ time_out' = 0
    /\ vencedor' = Nenhum
    /\ resultado' = SemResultado
    /\ passada' = SemPassada
    /\ UNCHANGED <<resultado_final_counter, resultado_final, mais_vence>>

\* resultado_final.update(dict(resultado_final_counter)) (line 243)
Update(d, c) == [k \in DOMAIN d \cup DOMAIN c |-> IF k \in DOMAIN c THEN c[k] ELSE d[k]]

\* (resultado_final[label]/turnos) * 100 (lines 246-249), as a fraction
Porcentagem(d, label) == [num |-> d[label] * 100, den |-> turnos]

\* a > b of two such fractions
Maior(a, b) == a.num * b.den > b.num * a.den

\* Mutant of MaxPrimeiro: a later item replaces an equal one
RECURSIVE MaxPrimeiro_Ultimo(_, _, _)
MaxPrimeiro_Ultimo(d, n, melhor) ==
    IF n > Len(Rotulos) THEN Rotulos[melhor]
    ELSE IF ~Maior(Porcentagem(d, Rotulos[melhor]), Porcentagem(d, Rotulos[n]))
         THEN MaxPrimeiro_Ultimo(d, n + 1, n)
         ELSE MaxPrimeiro_Ultimo(d, n + 1, melhor)

\* max(porcentagem_vitorias_comportamento.items(), key=operator.itemgetter(1))[0]
\* (line 252): the items from the n-th on against the running maximum
RECURSIVE MaxPrimeiro(_, _, _)
MaxPrimeiro(d, n, melhor) ==
    IF n > Len(Rotulos) THEN Rotulos[melhor]
    ELSE IF Maior(Porcentagem(d, Rotulos[n]), Porcentagem(d, Rotulos[melhor]))
         THEN MaxPrimeiro(d, n + 1, n)
         ELSE MaxPrimeiro(d, n + 1, melhor)

\* range(turnos) is exhausted: the totals and the strategy that wins most (lines 243-252)
Relatorio ==
    /\ pc = "main_for"
    /\ ~(i_main + 1 < turnos)
    /\ resultado_final' = Update(resultado_final, resultado_final_counter)
    /\ mais_vence' = MaxPrimeiro(Update(resultado_final, resultado_final_counter), 2, 1)
    /\ pc' = "fim"
    /\ UNCHANGED <<jogadores, tabuleiro, rodada, jogadores_falidos, idx, jogada, dc,
                   time_out, vencedor, resultado, passada, i_main,
                   resultado_final_counter>>

JogaExperimento == JogaCom(FacesExperimento)

\* The totals of turnos games: v[n] wins of the n-th label, t timeouts, r rounds
Totais(v, t, r) ==
    [k \in DOMAIN ResultadoFinalZero |->
        IF k = "timeout" THEN t
        ELSE IF k = "turnos" THEN r
        ELSE v[CHOOSE n \in 1..Len(Rotulos) : Rotulos[n] = k]]

\* __main__ when its loop is over (line 243 next), on the totals of turnos
\* games: one win per game, at most one timeout per game, between 1 and
\* MaxRodadas rounds per game
InitRelatorio ==
    /\ \E v \in [1..Len(Rotulos) -> 0..turnos], t \in 0..turnos,
          r \in turnos..(turnos * MaxRodadas) :
          /\ v[1] + v[2] + v[3] + v[4] = turnos
          /\ resultado_final_counter = CounterIadd(ResultadoFinalZero, Totais(v, t, r))
    /\ i_main = turnos - 1
    /\ resultado_final = ResultadoFinalZero
    /\ mais_vence = ""
    /\ pc = "main_for"
    /\ jogadores = <<>>
    /\ tabuleiro = <<>>
    /\ rodada = 0
    /\ jogadores_falidos = 0
    /\ idx = 0
    /\ jogada = SemJogada
    /\ dc = SemDecisao
    /\ time_out = 0
    /\ vencedor = Nenhum
    /\ resultado = SemResultado
    /\ passada = SemPassada

NextRelatorio == Relatorio

SpecRelatorio == InitRelatorio /\ [][NextRelatorio]_vars

NextExperimento ==
    \/ EntraRodada \/ Pula \/ JogaExperimento \/ FimRodada \/ Resolve \/ Reset
    \/ Acumula \/ NovoJogo \/ Relatorio

SpecExperimento == Init /\ [][NextExperimento]_vars

----------------------------------------------------------------------------
(* Claims *)

Jogadores == 1..Len(jogadores)
\* The step is a turn: executa_jogada ran
Turno == jogada' # jogada

\* C1: play always terminates, whatever the die values and the random purchase
\* choices: it returns, and rodada never exceeds the round cap.
C1_Termina == [](rodada <= MaxRodadas) /\ <>(pc = "retornou")

\* C1 witness: the loop was left at the round cap with fewer than three bankrupt players
C1_Witness == pc = "resolvido" /\ rodada = MaxRodadas /\ jogadores_falidos < LimiteFalidos

\* C2: once three players are bankrupt no player takes a turn, no round is
\* started, and the result computed has timeout = 0.
C2_TerceiraFalenciaEncerra ==
    [][ jogadores_falidos >= LimiteFalidos =>
          /\ ~Turno
          /\ ~(pc = "while" /\ pc' = "for")
          /\ (pc' = "resolvido" => time_out' = 0 /\ resultado'["timeout"] = 0) ]_vars

\* C2 witness: the game returned after a third bankruptcy that happened while a
\* player later in the list, not bankrupt, had not played in that round
C2_Witness ==
    /\ pc = "resolvido"
    /\ jogadores_falidos = LimiteFalidos
    /\ resultado["timeout"] = 0
    /\ idx < Len(jogadores)
    /\ \E k \in Jogadores : k > idx /\ ~jogadores[k].falido

\* C3: for every player, the bankrupt flag is true iff the balance is
\* strictly negative; a balance of exactly 0 is not bankrupt.
C3_FalidoSseNegativo ==
    \A k \in Jogadores : jogadores[k].falido <=> jogadores[k].saldo < 0

\* C3 witness: a player ended its turn with a balance of exactly 0
C3_Witness ==
    /\ pc \in {"for", "fim_rodada"}
    /\ jogada.jogador # Nenhum
    /\ jogadores[jogada.jogador].saldo = 0
    /\ ~jogadores[jogada.jogador].falido

\* C4: between turns no property is owned by a bankrupt player (also when the
\* player bought the property on the turn it went bankrupt).
C4_FalidoSemPropriedades ==
    \A p \in 1..Len(tabuleiro) :
        tabuleiro[p].dono # Nenhum =>
            /\ tabuleiro[p].dono \in Jogadores
            /\ ~jogadores[tabuleiro[p].dono].falido

\* C4 witness: a player went bankrupt on the turn in which it bought the
\* property it landed on
C4_Witness ==
    /\ pc \in {"for", "fim_rodada"}
    /\ jogada.jogador # Nenhum
    /\ dc.chamada /\ dc.ret
    /\ jogadores[jogada.jogador].falido

\* What the economic step of the turn just taken debited: the price when the
\* strategy bought, nothing when it declined, the rent when the property
\* landed on had an owner
Debito(props, landed) ==
    IF dc'.chamada THEN (IF dc'.ret THEN dc'.custo_propriedade ELSE 0)
    ELSE props[landed].valor_aluguel

\* C5: a turn from position p with die value r in 1..6 ends on p + r with no
\* credit when p + r <= 20, and on p + r - 20 with a credit of exactly 100 when
\* p + r > 20; the position after a turn is in 1..20 and the board is read at
\* an index inside its 20 slots.
C5_MovimentoEBonus ==
    [][ Turno =>
          LET i == jogada'.jogador
              p == jogadores[i].posicao_tabuleiro
              r == jogada'.qtd_posicoes_andar
              q == jogadores'[i].posicao_tabuleiro
          IN  /\ r \in DadoMin..DadoMax
              /\ q >= 1 /\ q <= TamanhoTabuleiro
              /\ jogada'.indice = q - 1
              /\ jogada'.indice >= 0 /\ jogada'.indice < Len(tabuleiro)
              /\ ~jogada'.erro
              /\ p + r <= TamanhoTabuleiro =>
                    /\ q = p + r
                    /\ jogadores'[i].saldo = jogadores[i].saldo - Debito(tabuleiro, q)
              /\ p + r > TamanhoTabuleiro =>
                    /\ q = p + r - TamanhoTabuleiro
                    /\ jogadores'[i].saldo = jogadores[i].saldo + Bonus - Debito(tabuleiro, q) ]_vars

\* C5 witness: a turn passed the end of the board
C5_Witness ==
    /\ pc \in {"for", "fim_rodada"}
    /\ jogada.jogador # Nenhum
    /\ jogada.de + jogada.qtd_posicoes_andar > TamanhoTabuleiro
    /\ jogadores[jogada.jogador].posicao_tabuleiro = jogada.de + jogada.qtd_posicoes_andar - TamanhoTabuleiro

\* C6: the timeout flag of the result is 1 iff the game ended with rodada at
\* the round cap and fewer than 3 bankrupt players; a third bankruptcy during
\* the last round gives timeout = 0.
C6_TimeoutSse ==
    pc = "resolvido" =>
        /\ resultado["timeout"] \in {0, 1}
        /\ resultado["timeout"] = 1 <=>
              (rodada = MaxRodadas /\ Cardinality({k \in Jogadores : jogadores[k].falido}) < LimiteFalidos)

\* C6 witness: the third bankruptcy happened during the last round
C6_Witness ==
    /\ pc = "resolvido"
    /\ rodada = MaxRodadas
    /\ Cardinality({k \in Jogadores : jogadores[k].falido}) = LimiteFalidos
    /\ resultado["timeout"] = 0

\* C7: the winner is the earliest player in list order whose balance is
\* maximal among all players, bankrupt or not.
C7_PrimeiroMaiorSaldo ==
    pc = "resolvido" =>
        /\ vencedor \in Jogadores
        /\ \A k \in Jogadores :
              /\ jogadores[k].saldo <= jogadores[vencedor].saldo
              /\ k < vencedor => jogadores[k].saldo < jogadores[vencedor].saldo

\* C7 witness: a later player has the same balance as the winner
C7_Witness ==
    /\ pc = "resolvido"
    /\ \E k \in Jogadores : k > vencedor /\ jogadores[k].saldo = jogadores[vencedor].saldo

\* C8: with impulsivo set, decide_compra returns buy for every price, rent and
\* balance, whatever the other three traits are.
C8_ImpulsivoSempreCompra ==
    (dc.chamada /\ dc.comportamento.impulsivo) => dc.ret

\* C8 witness: impulsivo bought with the three other traits set and their own
\* rules against buying or undecided
C8_Witness ==
    /\ dc.chamada
    /\ dc.comportamento = Traits(TRUE, TRUE, TRUE, TRUE)
    /\ dc.valor_aluguel < AluguelMinimoExigente
    /\ dc.saldo - dc.custo_propriedade < ReservaCauteloso
    /\ dc.ret

\* The cautious rule says buy
ReservaBasta == dc.comportamento.cauteloso /\ dc.saldo - dc.custo_propriedade >= ReservaCauteloso

C10_FalidoNaoJogaMais ==
    [][ pc # "resolvido" =>
          \A k \in Jogadores :
              jogadores[k].falido =>
                  /\ ~(Turno /\ jogada'.jogador = k)
                  /\ k \in 1..Len(jogadores')
                  /\ jogadores'[k].falido
                  /\ jogadores'[k].saldo = jogadores[k].saldo
                  /\ jogadores'[k].posicao_tabuleiro = jogadores[k].posicao_tabuleiro ]_vars

\* C10 witness: a bankrupt player was skipped in a later round and another
\* player took the last turn
C10_Witness ==
    /\ pc = "for"
    /\ \E k \in Jogadores :
          /\ jogadores[k].falido
          /\ k < idx
          /\ jogada.jogador \notin {k, Nenhum}
          /\ jogada.jogador < k

\* The property the turn just taken landed on
Parada == Posicao(tabuleiro, jogada'.indice)
\* The credit of the move of the turn just taken
Credito == IF jogada'.de + jogada'.qtd_posicoes_andar > TamanhoTabuleiro THEN Bonus ELSE 0

\* C11: when a player lands on a property that has an owner, its balance is
\* debited by exactly the rent of that property and executa_jogada leaves the
\* owner as it was, whoever the owner is, the player itself included.
C11_AluguelDebitado ==
    [][ (Turno /\ tabuleiro[Parada].dono # Nenhum) =>
          LET i == jogada'.jogador
          IN  /\ ~dc'.chamada
              /\ jogadores'[i].saldo =
                    jogadores[i].saldo + Credito - tabuleiro[Parada].valor_aluguel
              /\ jogada'.dono_apos = tabuleiro[Parada].dono ]_vars

\* C11 witness: a player paid rent on a property it owns itself
C11_Witness ==
    /\ pc \in {"for", "fim_rodada"}
    /\ jogada.jogador # Nenhum
    /\ jogada.dono = jogada.jogador
    /\ jogada.dono_apos = jogada.jogador
    /\ ~dc.chamada

\* C12: when a player lands on a property without owner: if its strategy says
\* buy, executa_jogada makes the player the owner and debits exactly the price,
\* also when the balance becomes negative; if it declines, the economic step
\* changes neither the balance nor the owner.
C12_CompraOuNada ==
    [][ (Turno /\ tabuleiro[Parada].dono = Nenhum) =>
          LET i == jogada'.jogador
          IN  /\ dc'.chamada
              /\ dc'.custo_propriedade = tabuleiro[Parada].custo_venda
              /\ dc'.saldo = jogadores[i].saldo + Credito
              /\ dc'.ret =>
                    /\ jogada'.dono_apos = i
                    /\ jogadores'[i].saldo = dc'.saldo - tabuleiro[Parada].custo_venda
              /\ ~dc'.ret =>
                    /\ jogada'.dono_apos = Nenhum
                    /\ tabuleiro'[Parada].dono = Nenhum
                    /\ jogadores'[i].saldo = dc'.saldo ]_vars

\* C12 witness: a purchase left the buyer with a negative balance
C12_Witness ==
    /\ pc \in {"for", "fim_rodada"}
    /\ jogada.jogador # Nenhum
    /\ dc.chamada /\ dc.ret
    /\ jogada.dono_apos = jogada.jogador
    /\ jogadores[jogada.jogador].saldo < 0

\* The accumulated wins of the four labels
RECURSIVE SomaVitorias(_, _)
SomaVitorias(c, n) == IF n = 0 THEN 0 ELSE Conta(c, Rotulos[n]) + SomaVitorias(c, n - 1)

\* The games whose result has been added to the totals
Somados == IF pc \in {"main_for", "fim"} THEN i_main + 1 ELSE i_main

\* C13: the result of every game holds exactly one of the four labels, with
\* count 1, and after N games the accumulated wins of the four labels sum to N.
C13_UmaVitoriaPorJogo ==
    /\ pc \in {"resolvido", "retornou"} =>
          /\ Cardinality({n \in 1..Len(Rotulos) : Rotulos[n] \in DOMAIN resultado}) = 1
          /\ DOMAIN resultado \subseteq {"timeout", "turnos"} \cup {Rotulos[n] : n \in 1..Len(Rotulos)}
          /\ SomaVitorias(resultado, Len(Rotulos)) = 1
    /\ SomaVitorias(resultado_final_counter, Len(Rotulos)) = Somados
    /\ pc = "fim" => SomaVitorias(resultado_final, Len(Rotulos)) = turnos

\* C13 witness: the report follows games that one label won more than once
C13_Witness ==
    /\ pc = "fim"
    /\ \E n \in 1..Len(Rotulos) : resultado_final[Rotulos[n]] > 1

\* C14 as stated: when a round is counted (rodada += 1), every player that was
\* not bankrupt when the round started has taken exactly one turn in it.
C14_TodosJogamUmaVez ==
    [][ (pc = "fim_rodada" /\ rodada' = rodada + 1) =>
          \A k \in passada.ativos : passada.jogadas[k] = 1 ]_vars

\* C14 amended: when a round is counted, no player has taken more than one
\* turn in it and the players bankrupt at its start have taken none; every
\* player not bankrupt at its start has taken exactly one, except that in a
\* round cut by the third bankruptcy the players after the one whose turn
\* caused it have taken none.
C14_UmaVezAteAQuebra ==
    [][ (pc = "fim_rodada" /\ rodada' = rodada + 1) =>
          \A k \in Jogadores :
             passada.jogadas[k] =
                IF k \notin passada.ativos THEN 0
                ELSE IF Quebra(jogadores_falidos) /\ k > idx THEN 0
                ELSE 1 ]_vars

\* C14 witness: a round is about to be counted in which the third bankruptcy
\* left a player that was not bankrupt at its start without a turn, after a
\* player that took its turn
C14_Witness ==
    /\ pc = "fim_rodada"
    /\ Quebra(jogadores_falidos)
    /\ \E k \in passada.ativos : k > idx /\ passada.jogadas[k] = 0
    /\ \E k \in passada.ativos : k <= idx /\ passada.jogadas[k] = 1

\* The number of players whose bankrupt flag is set
NumFalidos(jogs) == Cardinality({k \in DOMAIN jogs : jogs[k].falido})

\* C15: between turns jogadores_falidos is the number of players whose
\* bankrupt flag is set and is at most 3, so that a player stays non-bankrupt
\* while the game lasts; a turn adds one to it exactly when it makes its
\* player bankrupt; and no step before the reset of the game lowers it.
C15_ContadorDeFalidos ==
    [][ /\ jogadores_falidos = NumFalidos(jogadores)
        /\ jogadores_falidos' = NumFalidos(jogadores')
        /\ jogadores_falidos' <= LimiteFalidos
        /\ jogadores' # <<>> => \E k \in DOMAIN jogadores' : ~jogadores'[k].falido
        /\ Turno =>
              LET i == jogada'.jogador
              IN  jogadores_falidos' =
                     IF jogadores'[i].falido /\ ~jogadores[i].falido
                     THEN jogadores_falidos + 1 ELSE jogadores_falidos
        /\ pc # "resolvido" => jogadores_falidos' >= jogadores_falidos ]_vars

\* C15 witness: three turns have each made their player bankrupt and the
\* counter is 3, with one player left
C15_Witness ==
    /\ pc = "fim_rodada"
    /\ jogadores_falidos = LimiteFalidos
    /\ NumFalidos(jogadores) = LimiteFalidos
    /\ jogada.jogador # Nenhum /\ jogadores[jogada.jogador].falido

\* C16: the strategy reported as winning most is a label whose accumulated
\* win count no other label exceeds, and every label before it in the order
\* impulsivo, exigente, cauteloso, aleatorio has a strictly smaller count.
C16_MaisVenceEPrimeiroMaximo ==
    pc = "fim" =>
       /\ Rotulos = <<"impulsivo", "exigente", "cauteloso", "aleatorio">>
       /\ \E m \in 1..Len(Rotulos) :
             /\ mais_vence = Rotulos[m]
             /\ \A n \in 1..Len(Rotulos) :
                   resultado_final[Rotulos[n]] <= resultado_final[mais_vence]
             /\ \A n \in 1..(m - 1) :
                   resultado_final[Rotulos[n]] < resultado_final[mais_vence]

\* C16 witness: the report is made on a tie for the greatest count between
\* the reported label, which is not the first of the order, and a later one
C16_Witness ==
    /\ pc = "fim"
    /\ \E m, n \in 1..Len(Rotulos) :
          /\ 1 < m /\ m < n
          /\ mais_vence = Rotulos[m]
          /\ resultado_final[Rotulos[n]] = resultado_final[Rotulos[m]]

\* C17: when the loop of play has exited, by the round cap or by three
\* bankruptcies, the winner selected is a player whose bankrupt flag is
\* false and whose balance is >= 0.
C17_VencedorNaoFalido ==
    pc = "resolvido" =>
       /\ vencedor \in Jogadores
       /\ ~jogadores[vencedor].falido
       /\ jogadores[vencedor].saldo >= 0

\* C17 witness: the loop exited on three bankruptcies, the first player of
\* the list is bankrupt and the winner selected is a later player
C17_Witness ==
    /\ pc = "resolvido"
    /\ jogadores_falidos = LimiteFalidos
    /\ jogadores[1].falido
    /\ vencedor > 1

\* C18: a turn of a player leaves the balance, position and bankrupt flag of
\* every other player as they were, the owner of the property landed on
\* included: the rent paid is credited to nobody. Of the player of the turn
\* only balance, position and bankrupt flag can change.
C18_SoOJogadorDaVez ==
    [][ Turno =>
          LET i == jogada'.jogador
          IN  /\ \A k \in Jogadores : k # i => jogadores'[k] = jogadores[k]
              /\ jogadores'[i].comportamento = jogadores[i].comportamento
              /\ jogada'.dono \notin {Nenhum, i} =>
                    jogadores'[jogada'.dono].saldo = jogadores[jogada'.dono].saldo ]_vars

\* C18 witness: a turn has just paid rent on a property of another player,
\* who is not bankrupt
C18_Witness ==
    /\ pc \in {"for", "fim_rodada"}
    /\ jogada.jogador # Nenhum
    /\ jogada.dono \notin {Nenhum, jogada.jogador}
    /\ ~dc.chamada
    /\ ~jogadores[jogada.dono].falido
    /\ jogadores[jogada.jogador].saldo < SaldoInicial

\* C19: the owner of a property changes only from no owner to the player
\* that landed on it and bought it, or from a player to no owner in the turn
\* in which that player becomes bankrupt; never from a player to another
\* player. When executa_jogada returns, before the clearing of a bankrupt
\* player, only the property landed on can have another owner than before
\* the turn. Between turns no owner changes while the game lasts.
C19_DonoSoMudaPorCompraOuFalencia ==
    [][ /\ Turno =>
             LET i == jogada'.jogador
                 parada == Parada
                 \* the board when executa_jogada returned, before remove_jogador
                 apos == executa_jogada(jogadores, tabuleiro, i,
                                        jogada'.qtd_posicoes_andar, dc'.bit).propriedades
             IN  /\ \A p \in DOMAIN tabuleiro :
                       tabuleiro'[p].dono # tabuleiro[p].dono =>
                          \/ /\ tabuleiro[p].dono = Nenhum
                             /\ tabuleiro'[p].dono = i
                             /\ p = parada
                             /\ dc'.chamada /\ dc'.ret
                          \/ /\ tabuleiro[p].dono = i
                             /\ tabuleiro'[p].dono = Nenhum
                             /\ jogadores'[i].falido /\ ~jogadores[i].falido
                 /\ apos = [tabuleiro EXCEPT ![parada].dono = apos[parada].dono]
                 /\ apos[parada].dono = jogada'.dono_apos
                 /\ apos[parada].dono # tabuleiro[parada].dono =>
                       tabuleiro[parada].dono = Nenhum /\ apos[parada].dono = i
        /\ (~Turno /\ jogadores # <<>> /\ jogadores' # <<>>) =>
             tabuleiro' = tabuleiro ]_vars

\* C19 witness: a turn has made its player bankrupt on a property of another
\* player, who still owns it, and nothing is owned by the bankrupt player
C19_Witness ==
    /\ pc \in {"for", "fim_rodada"}
    /\ jogada.jogador # Nenhum
    /\ jogadores[jogada.jogador].falido
    /\ jogada.dono \notin {Nenhum, jogada.jogador}
    /\ tabuleiro[Posicao(tabuleiro, jogada.indice)].dono = jogada.dono
    /\ \A p \in DOMAIN tabuleiro : tabuleiro[p].dono # jogada.jogador
    /\ \E p \in DOMAIN tabuleiro : tabuleiro[p].dono \notin {Nenhum, jogada.dono}

\* The only trait of the strategy is cautious, or demanding
SoCauteloso(c) == c = Traits(FALSE, FALSE, TRUE, FALSE)
SoExigente(c) == c = Traits(FALSE, TRUE, FALSE, FALSE)

\* C20: a player whose only trait is cautious has a balance of at least 80
\* when a turn in which it bought ends, and the turn that makes it bankrupt
\* is one in which it paid rent, not one in which decide_compra was called;
\* every property owned by a player whose only trait is demanding has a
\* rent of at least 50.
C20_CautelosoEExigente ==
    [][ /\ Turno =>
             LET i == jogada'.jogador
             IN  SoCauteloso(jogadores[i].comportamento) =>
                    /\ (dc'.chamada /\ dc'.ret) =>
                          /\ jogadores'[i].saldo >= ReservaCauteloso
                          /\ ~jogadores'[i].falido
                    /\ (jogadores'[i].falido /\ ~jogadores[i].falido) =>
                          /\ ~dc'.chamada
                          /\ tabuleiro[Parada].dono # Nenhum
                          /\ jogadores'[i].saldo =
                                jogadores[i].saldo + Credito - tabuleiro[Parada].valor_aluguel
        /\ \A p \in DOMAIN tabuleiro' :
             tabuleiro'[p].valor_aluguel < AluguelMinimoExigente =>
                \/ tabuleiro'[p].dono = Nenhum
                \/ ~SoExigente(jogadores'[tabuleiro'[p].dono].comportamento) ]_vars

\* C20 witness: the cautious player has just bought a property, the demanding
\* player owns a property and the board has unowned properties of rent below 50
C20_Witness ==
    /\ pc \in {"for", "fim_rodada"}
    /\ jogada.jogador # Nenhum
    /\ SoCauteloso(jogadores[jogada.jogador].comportamento)
    /\ dc.chamada /\ dc.ret
    /\ jogada.dono_apos = jogada.jogador
    /\ \E p \in DOMAIN tabuleiro :
          /\ tabuleiro[p].dono # Nenhum
          /\ SoExigente(jogadores[tabuleiro[p].dono].comportamento)
    /\ \E p \in DOMAIN tabuleiro :
          tabuleiro[p].dono = Nenhum /\ tabuleiro[p].valor_aluguel < AluguelMinimoExigente

====
